---------------------------- MODULE Spec2Model ----------------------------
(***************************************************************************)
(* A model of the RAG sidecar of civIQ (src/rag-sidecar/main.py): the      *)
(* ingestion controller (rebuild of the chunk index, the BM25 index and    *)
(* the page index, the disk cache, the /ingest trigger and its flag), the  *)
(* readers of the live indices, and the hybrid retrieval function.         *)
(*                                                                         *)
(* Texts are abstract: a raw_content is the word slice <<hash, page,       *)
(* start, length>> of a document, an embedding is the vector of a text.    *)
(* Scores are fixed-point numbers.                                         *)
(***************************************************************************)
EXTENDS Integers, Sequences, FiniteSets, TLC

VARIABLES
    docsDir,       \* DOCS_DIR: the set of PDF paths present
    cacheDir,      \* CACHE_DIR: file name -> content
    chunks,        \* global chunks
    bm25_index,    \* global bm25_index: None, or the corpus it was built over
    pages_store,   \* global pages_store
    pages_bm25,    \* global pages_bm25: None, or the page corpus it was built over
    ingesting,     \* global _ingesting
    started,       \* the startup event has completed and requests are served
    pc,            \* per thread: the position in startup / ingest / _run
    loc,           \* per thread: the locals of ingest_all_docs
    resp,          \* per thread: the request it served last and the response
    nreq,          \* number of POST /ingest requests received so far
    nchanges,      \* number of changes made to DOCS_DIR so far
    built,         \* per published chunk list: the pages collected by the same rebuild
    rpc,           \* the reader's position in retrieve / hybrid_search
    seen,          \* what the reader has read from the globals so far
    hashSeed,      \* the process's string-hash seed (iteration order of sets)
    query,         \* the request of the retrieve call under study
    top_k,         \* its top_k
    spc,           \* its position in hybrid_search
    results,       \* its result list so far
    primary,       \* the results added by the primary fill
    rescued,       \* the results added by keyword rescue
    paged,         \* the results added by page-level rescue
    page_words,    \* the number of words of the page given to chunk_pages
    cpc,           \* the position of that call of chunk_pages
    chunks_of_page, \* the chunks it returned
    score_list,    \* the list of (id, score) given to normalize_scores
    npc,           \* the position of that call of normalize_scores
    normalized,    \* the dict it returned
    voter_records, \* the rows of the voter CSV in memory (0: none)
    scored_voters, \* the scored candidates in memory (0: none)
    voter_scoring, \* the flag _voter_scoring
    upload,        \* the upload-voters requests: position, file, response
    rescore,       \* the response of the rescore-voters requests
    task           \* the background runs of score_all_voters

ingestVars  == <<docsDir, cacheDir, chunks, bm25_index, pages_store, pages_bm25,
                 ingesting, started, pc, loc, resp, nreq, nchanges, built>>
readerVars  == <<rpc, seen>>
searchVars  == <<hashSeed, query, top_k, spc, results, primary, rescued, paged>>
chunkVars   == <<page_words, cpc, chunks_of_page>>
normVars    == <<score_list, npc, normalized>>
voterVars   == <<voter_records, scored_voters, voter_scoring, upload, rescore, task>>
vars        == <<ingestVars, readerVars, searchVars, chunkVars, normVars, voterVars>>

\* The upload-voters and rescore-voters requests of the model, and the
\* background tasks they start, one for each request.
Uploads  == {1, 2}
Rescores == {3}
Tasks    == Uploads \cup Rescores

NoUpload == [pc |-> "idle", file |-> "none", code |-> "none"]
NoTask   == [status |-> "none", input |-> 0]

\* No call of normalize_scores on its own.
NormOff == score_list = << >> /\ npc = "off" /\ normalized = << >>

\* The voter subsystem as the module leaves it (lines 1163-1166), no request made.
VotersOff ==
    /\ voter_records = 0
    /\ scored_voters = 0
    /\ voter_scoring = FALSE
    /\ upload = [u \in Uploads |-> NoUpload]
    /\ rescore = [r \in Rescores |-> "none"]
    /\ task = [k \in Tasks |-> NoTask]

\* Python's None, and a value that is not None.
None    == << >>
Some(x) == << x >>
Val(o)  == o[1]

(***************************************************************************)
(* Bounds of the model.                                                    *)
(***************************************************************************)
MaxRequests == 2      \* POST /ingest requests over a run
MaxChanges  == 1      \* changes of DOCS_DIR over a run

(***************************************************************************)
(* Program constants.                                                      *)
(***************************************************************************)
CHUNK_SIZE      == 280
OVERLAP         == 60
MIN_CHUNK_WORDS == 40
MIN_SLICE_WORDS == 15
MIN_PAGE_CHARS  == 30

Min(a, b) == IF a < b THEN a ELSE b
Max(a, b) == IF a > b THEN a ELSE b

(***************************************************************************)
(* The documents of the model.  A path is a number, and the order of the   *)
(* numbers is the order of the paths.  Path 3 is not a readable PDF.       *)
(***************************************************************************)
PdfPaths == {1, 2, 3}

\* A PDF whose only page is long enough to be kept by parse_pdf and too
\* short to give a chunk.
ShortPdfs == {4}

\* A PDF of one page, which has the number of a page of document 1.
OnePagePdfs == {5}

Malformed(path) == path = 3

file_hash(path) ==
    CASE path = 1 -> "h1"
      [] path = 2 -> "h2"
      [] path = 3 -> "h3"
      [] path = 4 -> "h4"
      [] path = 5 -> "h5"

\* The physical pages of a PDF: words and characters of the stripped text,
\* and the title parse_pdf gives the page.
RawPages(path) ==
    CASE path = 1 -> << [words |-> 300, chars |-> 1800, title |-> "Section 5"],
                        [words |-> 3,   chars |-> 12,   title |-> "Section 5"],
                        [words |-> 45,  chars |-> 270,  title |-> "Appendix 3"] >>
      [] path = 2 -> << [words |-> 2,   chars |-> 9,    title |-> "Introduction"],
                        [words |-> 50,  chars |-> 300,  title |-> "Section 6"] >>
      [] path = 4 -> << [words |-> 35,  chars |-> 210,  title |-> "Notice"] >>
      [] path = 5 -> << [words |-> 50,  chars |-> 300,  title |-> "Section 6"] >>
      [] OTHER    -> << >>

RECURSIVE parse_from(_, _)
parse_from(path, pg) ==
    IF pg > Len(RawPages(path)) THEN << >>
    ELSE LET raw == RawPages(path)[pg]
             rest == parse_from(path, pg + 1)
         IN IF raw.chars < MIN_PAGE_CHARS THEN rest
            ELSE << [page_num |-> pg,
                     words    |-> raw.words,
                     title    |-> raw.title,
                     doc_id   |-> file_hash(path)] >> \o rest

\* parse_pdf of a readable PDF (pymupdf.open raises on a malformed one).
parse_pdf(path) == parse_from(path, 1)

(***************************************************************************)
(* Chunking, contextual content, embedding.                                *)
(***************************************************************************)
\* A variant of the windows of a page whose step is the whole window.
RECURSIVE page_windows_no_overlap(_, _)
page_windows_no_overlap(n, start) ==
    IF start >= n THEN << >>
    ELSE LET len == Min(n - start, CHUNK_SIZE)
         IN IF len < MIN_SLICE_WORDS THEN << >>
            ELSE << [start |-> start, len |-> len] >>
                 \o page_windows_no_overlap(n, start + CHUNK_SIZE)

\* A variant of the windows of a page that keeps the last slice however short.
RECURSIVE page_windows_keep_tail(_, _)
page_windows_keep_tail(n, start) ==
    IF start >= n THEN << >>
    ELSE LET len  == Min(n - start, CHUNK_SIZE)
             step == Max(1, CHUNK_SIZE - OVERLAP)
         IN << [start |-> start, len |-> len] >> \o page_windows_keep_tail(n, start + step)

\* The windows [start, start + CHUNK_SIZE) of a page of n words.
RECURSIVE page_windows(_, _)
page_windows(n, start) ==
    IF start >= n THEN << >>
    ELSE LET len  == Min(n - start, CHUNK_SIZE)
             step == Max(1, CHUNK_SIZE - OVERLAP)
         IN IF len < MIN_SLICE_WORDS THEN << >>
            ELSE << [start |-> start, len |-> len] >> \o page_windows(n, start + step)

generate_chunk_context(raw, title) == << title, raw >>

Embed(text) == << "vec", text >>

RECURSIVE windows_to_chunks(_, _, _)
windows_to_chunks(p, ws, counter) ==
    IF ws = << >> THEN << >>
    ELSE LET raw == << p.doc_id, p.page_num, Head(ws).start, Head(ws).len >>
         IN << [id                 |-> counter,
                page               |-> p.page_num,
                section_title      |-> p.title,
                doc_id             |-> p.doc_id,
                raw_content        |-> raw,
                contextual_content |-> None,
                embedding          |-> None] >>
            \o windows_to_chunks(p, Tail(ws), counter + 1)

\* chunk_counter starts at 0 in every call, that is for every document.
RECURSIVE chunk_pages_from(_, _)
chunk_pages_from(pages, counter) ==
    IF pages = << >> THEN << >>
    ELSE LET p    == Head(pages)
             ws   == IF p.words < MIN_CHUNK_WORDS THEN << >> ELSE page_windows(p.words, 0)
             mine == windows_to_chunks(p, ws, counter)
         IN mine \o chunk_pages_from(Tail(pages), counter + Len(mine))

chunk_pages(pages) == chunk_pages_from(pages, 0)

enrich_with_context(chunk_list) ==
    [i \in 1..Len(chunk_list) |->
        [chunk_list[i] EXCEPT !.contextual_content =
            generate_chunk_context(chunk_list[i].raw_content, chunk_list[i].section_title)]]

embed_chunks(chunk_list) ==
    [i \in 1..Len(chunk_list) |->
        [chunk_list[i] EXCEPT !.embedding = Embed(chunk_list[i].contextual_content)]]

build_bm25(chunk_list) ==
    [i \in 1..Len(chunk_list) |-> chunk_list[i].contextual_content]


(***************************************************************************)
(* The disk cache.  A file name is its stem, the cache version it carries  *)
(* (if any) and its extension.                                             *)
(***************************************************************************)
CACHE_VERSION == "pplx-v1-280w-ctx2"
OLD_VERSION   == "pplx-v1-280w-ctx1"

cache_path(doc_hash)     == [stem |-> doc_hash, ver |-> CACHE_VERSION, ext |-> "json"]
emb_cache_path(doc_hash) == [stem |-> doc_hash, ver |-> CACHE_VERSION, ext |-> "npy"]

VOTER_CACHE_PATH == [stem |-> "voter-scores", ver |-> "", ext |-> "json"]
VOTER_CSV_PATH   == [stem |-> "voters",       ver |-> "", ext |-> "csv"]

WriteFile(dir, name, data) ==
    [f \in (DOMAIN dir) \cup {name} |-> IF f = name THEN data ELSE dir[f]]

Unlink(dir, names) == [f \in (DOMAIN dir) \ names |-> dir[f]]

Serialisable(chunk_list) ==
    [i \in 1..Len(chunk_list) |-> [chunk_list[i] EXCEPT !.embedding = None]]

\* The content of a file: whether it can be parsed, and its rows.
FileData(rows) == [valid |-> TRUE, rows |-> rows]

\* A variant of load_chunk_cache that returns the rows of the JSON file as
\* they are, without their embeddings.
load_chunk_cache_no_embedding(dir, doc_hash) ==
    LET cp == cache_path(doc_hash)
        ep == emb_cache_path(doc_hash)
    IN IF cp \notin DOMAIN dir \/ ep \notin DOMAIN dir THEN None
       ELSE IF ~dir[cp].valid \/ ~dir[ep].valid THEN None
       ELSE IF Len(dir[cp].rows) # Len(dir[ep].rows) THEN None
       ELSE Some(dir[cp].rows)

\* A variant of load_chunk_cache that does not compare the row counts.
load_chunk_cache_any_rows(dir, doc_hash) ==
    LET cp == cache_path(doc_hash)
        ep == emb_cache_path(doc_hash)
        n  == Min(Len(dir[cp].rows), Len(dir[ep].rows))
    IN IF cp \notin DOMAIN dir \/ ep \notin DOMAIN dir THEN None
       ELSE IF ~dir[cp].valid \/ ~dir[ep].valid THEN None
       ELSE Some([i \in 1..n |-> [dir[cp].rows[i] EXCEPT !.embedding = dir[ep].rows[i]]])

\* None, or the cached chunks with their embeddings put back.
load_chunk_cache(dir, doc_hash) ==
    LET cp == cache_path(doc_hash)
        ep == emb_cache_path(doc_hash)
    IN IF cp \notin DOMAIN dir \/ ep \notin DOMAIN dir THEN None
       ELSE IF ~dir[cp].valid \/ ~dir[ep].valid THEN None
       ELSE IF Len(dir[cp].rows) # Len(dir[ep].rows) THEN None
       ELSE Some([i \in 1..Len(dir[cp].rows) |->
                    [dir[cp].rows[i] EXCEPT !.embedding = dir[ep].rows[i]]])

\* The JSON is written first; np.stack raises on an empty list and the
\* exception is swallowed, so no matrix is written for a document without chunks.
save_chunk_cache(dir, doc_hash, chunk_list) ==
    LET withJson == WriteFile(dir, cache_path(doc_hash), FileData(Serialisable(chunk_list)))
    IN IF chunk_list = << >> THEN withJson
       ELSE WriteFile(withJson, emb_cache_path(doc_hash),
                      FileData([i \in 1..Len(chunk_list) |-> chunk_list[i].embedding]))

clean_stale_cache(dir) ==
    Unlink(dir, {f \in DOMAIN dir : f.ext \in {"json", "npy"} /\ f.ver # CACHE_VERSION})

EmptyDir == [f \in {} |-> FileData(<< >>)]

\* What a cache directory may hold when the process starts: nothing, or the
\* artefacts of an older cache version beside the voter files.
InitCaches ==
    { EmptyDir,
      [f \in { [stem |-> "h1", ver |-> OLD_VERSION, ext |-> "json"],
               [stem |-> "h1", ver |-> OLD_VERSION, ext |-> "npy"],
               VOTER_CACHE_PATH, VOTER_CSV_PATH } |-> FileData(<< "rows" >>) ] }

(***************************************************************************)
(* Ingestion of one PDF and of the directory.                              *)
(***************************************************************************)
\* The chunks ingest_pdf computes on a cache miss (before saving).
FreshChunks(path) == embed_chunks(enrich_with_context(chunk_pages(parse_pdf(path))))

SortedPaths(S) ==
    LET RECURSIVE upto(_)
        upto(n) == IF n = 0 THEN << >>
                   ELSE IF n \in S THEN Append(upto(n - 1), n) ELSE upto(n - 1)
    IN upto(5)

PageText(p) == << p.title, p.doc_id, p.page_num >>

EmbedPages(all_pages) ==
    [i \in 1..Len(all_pages) |-> [all_pages[i] EXCEPT !.embedding = Embed(PageText(all_pages[i]))]]

PageCorpus(all_pages) == [i \in 1..Len(all_pages) |-> PageText(all_pages[i])]

ParsedPages(path) ==
    LET ps == parse_pdf(path)
    IN [i \in 1..Len(ps) |->
          [page_num |-> ps[i].page_num, words |-> ps[i].words, title |-> ps[i].title,
           doc_id |-> ps[i].doc_id, embedding |-> None]]

(***************************************************************************)
(* Threads: the startup thread and the pool threads that serve POST        *)
(* /ingest and then run the background task _run.                          *)
(***************************************************************************)
Workers    == {1, 2}
Threads    == {0} \cup Workers          \* 0 is the startup thread

\* The locals of a run of ingest_all_docs, the exception that ended it (if
\* any), and for the record the live indices and the cache directory as the
\* run found them.
Live == [chunks |-> chunks, bm25_index |-> bm25_index, pages_store |-> pages_store]

NoLive == [chunks |-> << >>, bm25_index |-> None, pages_store |-> << >>]

NoLocals == [pdf_files |-> << >>, i |-> 0, all_chunks |-> << >>, all_pages |-> << >>,
             error |-> "none", before |-> NoLive, cache_found |-> EmptyDir]

NoResponse == [req |-> 0, code |-> "none"]

Goto(t, label) == pc' = [pc EXCEPT ![t] = label]

\* A variant in which an exception leaves _run without passing its finally.
Raise_past_finally(t, exc) ==
    /\ Goto(t, IF t = 0 THEN "crashed" ELSE "idle")
    /\ loc' = [loc EXCEPT ![t] = NoLocals]

\* An exception leaves ingest_all_docs: _run's finally for a pool thread,
\* a failed startup for the startup thread.
Raise(t, exc) ==
    /\ Goto(t, IF t = 0 THEN "crashed" ELSE "finally")
    /\ loc' = [loc EXCEPT ![t].error = exc, ![t].all_chunks = << >>, ![t].all_pages = << >>]

\* startup(): the embedder is loaded and ingest_all_docs() is called.
startup ==
    /\ pc[0] = "init"
    /\ Goto(0, "clean")
    /\ UNCHANGED <<docsDir, cacheDir, chunks, bm25_index, pages_store, pages_bm25,
                   ingesting, started, loc, resp, nreq, nchanges, built>>
    /\ UNCHANGED <<readerVars, searchVars, chunkVars, normVars, voterVars>>

\* A variant of the check that admits the request whatever the flag says.
ingest_check_whatever_flag(t) ==
    /\ started
    /\ pc[t] = "idle"
    /\ nreq < MaxRequests
    /\ nreq' = nreq + 1
    /\ resp' = [resp EXCEPT ![t] = [req |-> nreq + 1, code |-> "pending"]]
    /\ Goto(t, "set")
    /\ UNCHANGED <<docsDir, cacheDir, chunks, bm25_index, pages_store, pages_bm25,
                   ingesting, started, loc, nchanges, built>>
    /\ UNCHANGED <<readerVars, searchVars, chunkVars, normVars, voterVars>>

\* ingest(), lines 1108-1109: the check of the flag.
ingest_check(t) ==
    /\ started
    /\ pc[t] = "idle"
    /\ nreq < MaxRequests
    /\ nreq' = nreq + 1
    /\ IF ingesting
       THEN /\ resp' = [resp EXCEPT ![t] = [req |-> nreq + 1, code |-> "409"]]
            /\ UNCHANGED pc
       ELSE /\ resp' = [resp EXCEPT ![t] = [req |-> nreq + 1, code |-> "pending"]]
            /\ Goto(t, "set")
    /\ UNCHANGED <<docsDir, cacheDir, chunks, bm25_index, pages_store, pages_bm25,
                   ingesting, started, loc, nchanges, built>>
    /\ UNCHANGED <<readerVars, searchVars, chunkVars, normVars, voterVars>>

\* ingest(), lines 1110-1124: the flag is set, _run is scheduled, 200 is returned.
ingest_set(t) ==
    /\ pc[t] = "set"
    /\ ingesting' = TRUE
    /\ resp' = [resp EXCEPT ![t].code = "200"]
    /\ Goto(t, "clean")
    /\ UNCHANGED <<docsDir, cacheDir, chunks, bm25_index, pages_store, pages_bm25,
                   started, loc, nreq, nchanges, built>>
    /\ UNCHANGED <<readerVars, searchVars, chunkVars, normVars, voterVars>>

\* ingest_all_docs, line 650.
step_clean(t) ==
    /\ pc[t] = "clean"
    /\ cacheDir' = clean_stale_cache(cacheDir)
    /\ loc' = [loc EXCEPT ![t].before = Live, ![t].cache_found = cacheDir]
    /\ Goto(t, "scan")
    /\ UNCHANGED <<docsDir, chunks, bm25_index, pages_store, pages_bm25,
                   ingesting, started, resp, nreq, nchanges, built>>
    /\ UNCHANGED <<readerVars, searchVars, chunkVars, normVars, voterVars>>

\* ingest_all_docs, lines 652-659.
step_scan(t) ==
    /\ pc[t] = "scan"
    /\ IF docsDir = {}
       THEN /\ Goto(t, "finally")
            /\ UNCHANGED loc
       ELSE /\ Goto(t, "doc")
            /\ loc' = [loc EXCEPT ![t].pdf_files = SortedPaths(docsDir), ![t].i = 1]
    /\ UNCHANGED <<docsDir, cacheDir, chunks, bm25_index, pages_store, pages_bm25,
                   ingesting, started, resp, nreq, nchanges, built>>
    /\ UNCHANGED <<readerVars, searchVars, chunkVars, normVars, voterVars>>

CurrentPdf(t) == loc[t].pdf_files[loc[t].i]

AfterDoc(t, doc_chunks, pages) ==
    /\ loc' = [loc EXCEPT ![t].all_chunks = @ \o doc_chunks,
                          ![t].all_pages  = @ \o pages,
                          ![t].i          = @ + 1]
    /\ Goto(t, IF loc[t].i = Len(loc[t].pdf_files) THEN "publish_chunks" ELSE "doc")

\* One turn of the loop of lines 660-666 with the chunks loaded from the cache.
step_doc_cached(t) ==
    /\ pc[t] = "doc"
    /\ CurrentPdf(t) \in docsDir
    /\ ~Malformed(CurrentPdf(t))
    /\ load_chunk_cache(cacheDir, file_hash(CurrentPdf(t))) # None
    /\ AfterDoc(t, Val(load_chunk_cache(cacheDir, file_hash(CurrentPdf(t)))),
                ParsedPages(CurrentPdf(t)))
    /\ UNCHANGED <<docsDir, cacheDir, chunks, bm25_index, pages_store, pages_bm25,
                   ingesting, started, resp, nreq, nchanges, built>>
    /\ UNCHANGED <<readerVars, searchVars, chunkVars, normVars, voterVars>>

\* One turn of the loop with a cache miss: parse, chunk, enrich, embed, save.
step_doc_fresh(t) ==
    /\ pc[t] = "doc"
    /\ CurrentPdf(t) \in docsDir
    /\ ~Malformed(CurrentPdf(t))
    /\ load_chunk_cache(cacheDir, file_hash(CurrentPdf(t))) = None
    /\ \E fresh \in {FreshChunks(CurrentPdf(t))} :
          /\ cacheDir' = save_chunk_cache(cacheDir, file_hash(CurrentPdf(t)), fresh)
          /\ AfterDoc(t, fresh, ParsedPages(CurrentPdf(t)))
    /\ UNCHANGED <<docsDir, chunks, bm25_index, pages_store, pages_bm25,
                   ingesting, started, resp, nreq, nchanges, built>>
    /\ UNCHANGED <<readerVars, searchVars, chunkVars, normVars, voterVars>>

\* The turn raises: the file is gone since the scan (file_hash), or it is no
\* readable PDF (pymupdf.open in parse_pdf); nothing catches the exception.
step_doc_unreadable(t) ==
    /\ pc[t] = "doc"
    /\ CurrentPdf(t) \notin docsDir \/ Malformed(CurrentPdf(t))
    /\ Raise(t, IF CurrentPdf(t) \notin docsDir THEN "missing" ELSE "malformed")
    /\ UNCHANGED <<docsDir, cacheDir, chunks, bm25_index, pages_store, pages_bm25,
                   ingesting, started, resp, nreq, nchanges, built>>
    /\ UNCHANGED <<readerVars, searchVars, chunkVars, normVars, voterVars>>

\* The turn raises: the embedder fails in embed_chunks (a cache miss with chunks).
step_doc_embed_fails(t) ==
    /\ pc[t] = "doc"
    /\ CurrentPdf(t) \in docsDir
    /\ ~Malformed(CurrentPdf(t))
    /\ load_chunk_cache(cacheDir, file_hash(CurrentPdf(t))) = None
    /\ Raise(t, "embedder")
    /\ UNCHANGED <<docsDir, cacheDir, chunks, bm25_index, pages_store, pages_bm25,
                   ingesting, started, resp, nreq, nchanges, built>>
    /\ UNCHANGED <<readerVars, searchVars, chunkVars, normVars, voterVars>>

\* ingest_all_docs, line 668.
step_publish_chunks(t) ==
    /\ pc[t] = "publish_chunks"
    /\ chunks' = loc[t].all_chunks
    /\ built'  = loc[t].all_pages
    /\ Goto(t, "build_bm25")
    /\ UNCHANGED <<docsDir, cacheDir, bm25_index, pages_store, pages_bm25,
                   ingesting, started, loc, resp, nreq, nchanges>>
    /\ UNCHANGED <<readerVars, searchVars, chunkVars, normVars, voterVars>>

\* ingest_all_docs, line 669: build_bm25 reads the global chunks.
step_build_bm25(t) ==
    /\ pc[t] = "build_bm25"
    /\ bm25_index' = Some(build_bm25(chunks))
    /\ Goto(t, "page_index")
    /\ UNCHANGED <<docsDir, cacheDir, chunks, pages_store, pages_bm25,
                   ingesting, started, loc, resp, nreq, nchanges, built>>
    /\ UNCHANGED <<readerVars, searchVars, chunkVars, normVars, voterVars>>

\* ingest_all_docs, line 669, of an empty chunk list: bm25s may refuse to
\* index an empty corpus, and the exception leaves ingest_all_docs.
step_build_bm25_fails(t) ==
    /\ pc[t] = "build_bm25"
    /\ chunks = << >>
    /\ Raise(t, "bm25")
    /\ UNCHANGED <<docsDir, cacheDir, chunks, bm25_index, pages_store, pages_bm25,
                   ingesting, started, resp, nreq, nchanges, built>>
    /\ UNCHANGED <<readerVars, searchVars, chunkVars, normVars, voterVars>>

\* build_page_index, lines 628-636: nothing to index, or the pages are embedded.
step_page_embed(t) ==
    /\ pc[t] = "page_index"
    /\ IF loc[t].all_pages = << >>
       THEN /\ Goto(t, "finally")
            /\ UNCHANGED loc
       ELSE /\ Goto(t, "publish_pages")
            /\ loc' = [loc EXCEPT ![t].all_pages = EmbedPages(@)]
    /\ UNCHANGED <<docsDir, cacheDir, chunks, bm25_index, pages_store, pages_bm25,
                   ingesting, started, resp, nreq, nchanges, built>>
    /\ UNCHANGED <<readerVars, searchVars, chunkVars, normVars, voterVars>>

\* build_page_index, line 634: the embedder fails.
step_page_embed_fails(t) ==
    /\ pc[t] = "page_index"
    /\ loc[t].all_pages # << >>
    /\ Raise(t, "embedder")
    /\ UNCHANGED <<docsDir, cacheDir, chunks, bm25_index, pages_store, pages_bm25,
                   ingesting, started, resp, nreq, nchanges, built>>
    /\ UNCHANGED <<readerVars, searchVars, chunkVars, normVars, voterVars>>

\* build_page_index, line 638.
step_publish_pages(t) ==
    /\ pc[t] = "publish_pages"
    /\ pages_store' = loc[t].all_pages
    /\ Goto(t, "publish_pages_bm25")
    /\ UNCHANGED <<docsDir, cacheDir, chunks, bm25_index, pages_bm25,
                   ingesting, started, loc, resp, nreq, nchanges, built>>
    /\ UNCHANGED <<readerVars, searchVars, chunkVars, normVars, voterVars>>

\* build_page_index, lines 641-643.
step_publish_pages_bm25(t) ==
    /\ pc[t] = "publish_pages_bm25"
    /\ pages_bm25' = Some(PageCorpus(loc[t].all_pages))
    /\ Goto(t, "finally")
    /\ UNCHANGED <<docsDir, cacheDir, chunks, bm25_index, pages_store,
                   ingesting, started, loc, resp, nreq, nchanges, built>>
    /\ UNCHANGED <<readerVars, searchVars, chunkVars, normVars, voterVars>>

\* The end of ingest_all_docs: startup returns and requests are served, or
\* _run's finally clears the flag.
step_finally(t) ==
    /\ pc[t] = "finally"
    /\ loc' = [loc EXCEPT ![t] = NoLocals]
    /\ IF t = 0
       THEN /\ started' = TRUE
            /\ Goto(t, "done")
            /\ UNCHANGED ingesting
       ELSE /\ ingesting' = FALSE
            /\ Goto(t, "idle")
            /\ UNCHANGED started
    /\ UNCHANGED <<docsDir, cacheDir, chunks, bm25_index, pages_store, pages_bm25,
                   resp, nreq, nchanges, built>>
    /\ UNCHANGED <<readerVars, searchVars, chunkVars, normVars, voterVars>>

\* Somebody adds a PDF to DOCS_DIR or removes one.
change_docs ==
    /\ nchanges < MaxChanges
    /\ nchanges' = nchanges + 1
    /\ \E path \in PdfPaths :
          docsDir' = IF path \in docsDir THEN docsDir \ {path} ELSE docsDir \cup {path}
    /\ UNCHANGED <<cacheDir, chunks, bm25_index, pages_store, pages_bm25,
                   ingesting, started, pc, loc, resp, nreq, built>>
    /\ UNCHANGED <<readerVars, searchVars, chunkVars, normVars, voterVars>>


(***************************************************************************)
(* Retrieval.  The BM25 scores and the cosine similarities come from the   *)
(* external libraries: the query carries them, one raw score per corpus    *)
(* row and per chunk (per page for the page index).  One unit of a         *)
(* normalised or fused score is 1/6000, so that the quotients by score      *)
(* differences up to 6 are exact.                                          *)
(***************************************************************************)
UNIT == 6000

Range(f) == {f[i] : i \in DOMAIN f}

\* Python's stable sorted(seq, key=lambda x: -x.k) on a sequence of [k, v].
RECURSIVE InsertDesc(_, _)
InsertDesc(sorted, x) ==
    IF sorted = << >> THEN << x >>
    ELSE IF Head(sorted).k >= x.k THEN << Head(sorted) >> \o InsertDesc(Tail(sorted), x)
    ELSE << x >> \o sorted

RECURSIVE SortedDesc(_)
SortedDesc(seq) ==
    IF seq = << >> THEN << >>
    ELSE InsertDesc(SortedDesc(SubSeq(seq, 1, Len(seq) - 1)), seq[Len(seq)])

Values(seq) == [i \in 1..Len(seq) |-> seq[i].v]

\* The iteration order of a set of ids: it depends on the hash seed of the process.
RECURSIVE Ascending(_)
Ascending(S) ==
    IF S = {} THEN << >>
    ELSE LET m == CHOOSE x \in S : \A y \in S : x <= y
         IN << m >> \o Ascending(S \ {m})

Reverse(seq) == [i \in 1..Len(seq) |-> seq[Len(seq) + 1 - i]]

IterOrder(S, seed) == IF seed = 0 THEN Ascending(S) ELSE Reverse(Ascending(S))

\* normalize_scores on a list of [id, s]: a dict, the last entry of an id wins.
normalize_scores(scored) ==
    IF scored = << >> THEN << >> ELSE
    LET ids == {scored[i].id : i \in DOMAIN scored}
        ss  == {scored[i].s : i \in DOMAIN scored}
        mn  == CHOOSE x \in ss : \A y \in ss : x <= y
        mx  == CHOOSE x \in ss : \A y \in ss : x >= y
        last(cid) == CHOOSE i \in DOMAIN scored :
                        /\ scored[i].id = cid
                        /\ \A j \in DOMAIN scored : scored[j].id = cid => j <= i
    IN [cid \in ids |->
          IF mx = mn THEN UNIT
          ELSE ((scored[last(cid)].s - mn) * UNIT) \div (mx - mn)]

\* dict.get(key, default)
Get(dict, key, default) == IF key \in DOMAIN dict THEN dict[key] ELSE default

(***************************************************************************)
(* What the texts of the model contain (lower case, as the code compares). *)
(***************************************************************************)
RawTokens(raw) ==
    CASE raw = << "h1", 1, 0, 280 >>  -> {"polls", "open", "time"}
      [] raw = << "h1", 1, 220, 80 >> -> {"voter", "hotline", "blue"}
      [] raw = << "h1", 3, 0, 45 >>   -> {"blue", "box", "faq"}
      [] raw = << "h2", 2, 0, 50 >>   -> {"polls", "blue", "box"}
      [] raw = << "h5", 1, 0, 50 >>   -> {"blue", "box"}
      [] OTHER -> {}

RawTimes(raw) == IF raw = << "h1", 1, 0, 280 >> THEN {"6:00 am"} ELSE {}

RawNums(raw) == IF raw = << "h1", 1, 0, 280 >> THEN {"6", "00"} ELSE {}

HasPhone(raw) == raw = << "h1", 1, 220, 80 >>

LowPriorityContent(raw) == FALSE

LowPrioritySection(title) == title = "Appendix 3"

TitleTokens(title) ==
    CASE title = "Section 5" -> {"section"}
      [] title = "Section 6" -> {"section"}
      [] OTHER -> {"appendix"}

\* The tokens of raw_content.lower() + " " + contextual_content.lower().
Combined(c) ==
    RawTokens(c.raw_content)
    \cup (IF c.contextual_content = None THEN {}
          ELSE TitleTokens(c.contextual_content[1]) \cup RawTokens(c.contextual_content[2]))

\* The queries of the model: the distinctive words (in order, as re.findall
\* returns them), the high-value terms, the times and integers of the query.
QueryTexts ==
    { [words |-> << "time", "polls", "open" >>, specific_terms |-> {},
       times |-> {}, nums |-> {}, asks_phone |-> FALSE],
      [words |-> << "goes", "blue", "transport", "box" >>, specific_terms |-> {"blue"},
       times |-> {}, nums |-> {}, asks_phone |-> FALSE],
      [words |-> << "voter", "information", "hotline", "number" >>, specific_terms |-> {},
       times |-> {}, nums |-> {}, asks_phone |-> TRUE],
      [words |-> << "polls", "open" >>, specific_terms |-> {},
       times |-> {"6:00 am"}, nums |-> {"6", "00"}, asks_phone |-> FALSE],
      [words |-> << "polls", "close", "polls", "tonight" >>, specific_terms |-> {},
       times |-> {}, nums |-> {}, asks_phone |-> FALSE] }

Hundredths(n) == (n * UNIT) \div 100

score_adjustment(c, q) ==
      Hundredths(15) * Cardinality({t \in q.times : t \in RawTimes(c.raw_content)})
    + Hundredths(5)  * Cardinality({n \in q.nums : n \in RawNums(c.raw_content)})
    + (IF RawTimes(c.raw_content) # {} THEN Hundredths(5) ELSE 0)
    + (IF q.asks_phone /\ HasPhone(c.raw_content) THEN Hundredths(30) ELSE 0)
    - (IF LowPrioritySection(c.section_title) THEN Hundredths(50) ELSE 0)
    - (IF LowPriorityContent(c.raw_content) THEN Hundredths(40) ELSE 0)

\* text_to_id / id_to_chunk: the last chunk of the list wins a key.
LastOf(hits) == IF hits = {} THEN 0 ELSE CHOOSE i \in hits : \A j \in hits : j <= i

id_to_chunk(chunk_list, cid) ==
    chunk_list[LastOf({i \in 1..Len(chunk_list) : chunk_list[i].id = cid})]

\* Lines 773-779: the rows of the BM25 corpus, best score first, mapped to ids.
bm25_scored(chunk_list, corpus, q) ==
    LET rows   == [i \in 1..Len(corpus) |-> [k |-> q.bm25[i], v |-> i]]
        ranked == Values(SortedDesc(rows))
        HasText(i) == LastOf({n \in 1..Len(chunk_list) :
                                 chunk_list[n].contextual_content = corpus[ranked[i]]})
        found  == SelectSeq([i \in 1..Len(ranked) |-> i], LAMBDA i : HasText(i) # 0)
    IN [n \in 1..Len(found) |->
          [id |-> chunk_list[HasText(found[n])].id, s |-> q.bm25[ranked[found[n]]]]]

\* Line 783.
cosine_scored(chunk_list, q) ==
    [i \in 1..Len(chunk_list) |-> [id |-> chunk_list[i].id, s |-> q.cos[i]]]

\* Lines 819-828: the dict fused.
Fused(chunk_list, corpus, q) ==
    LET bm25_norm   == normalize_scores(bm25_scored(chunk_list, corpus, q))
        cosine_norm == normalize_scores(cosine_scored(chunk_list, q))
        all_ids     == (DOMAIN bm25_norm) \cup (DOMAIN cosine_norm)
    IN [cid \in all_ids |->
            (Get(bm25_norm, cid, 0) + Get(cosine_norm, cid, 0)) \div 2
          + score_adjustment(id_to_chunk(chunk_list, cid), q)]

\* Line 829.
sorted_ids(fused, seed) ==
    LET order == IterOrder(DOMAIN fused, seed)
    IN Values(SortedDesc([i \in 1..Len(order) |-> [k |-> fused[order[i]], v |-> order[i]]]))

Result(c, score) ==
    [chunk_id |-> c.id, page_number |-> c.page, section_title |-> c.section_title,
     chunk_content |-> c.raw_content, score |-> score, document_id |-> c.doc_id]

\* Lines 895-910: the loop appends, then tests len(results) >= top_k - 5.
RECURSIVE primary_fill(_, _, _, _, _)
primary_fill(ids, chunk_list, fused, k, acc) ==
    IF ids = << >> THEN acc
    ELSE LET next == Append(acc, Result(id_to_chunk(chunk_list, Head(ids)), fused[Head(ids)]))
         IN IF Len(next) >= k - 5 THEN next
            ELSE primary_fill(Tail(ids), chunk_list, fused, k, next)

\* Lines 872-883: the acceptance test of keyword rescue.
rescue_accepts(c, q) ==
    \/ \E term \in q.specific_terms : term \in Combined(c)
    \/ Cardinality({i \in 1..Len(q.words) : q.words[i] \in Combined(c)})
          >= Max(2, Len(q.words) \div 2)

\* Lines 865-886.
RECURSIVE rescue_loop(_, _, _, _)
rescue_loop(cands, q, k, acc) ==
    IF cands = << >> THEN acc
    ELSE LET c == Head(cands)
         IN IF c.id \in {acc[i].id : i \in DOMAIN acc}
            THEN rescue_loop(Tail(cands), q, k, acc)
            ELSE LET next == IF rescue_accepts(c, q) THEN Append(acc, c) ELSE acc
                 IN IF Len(next) >= k THEN next
                    ELSE rescue_loop(Tail(cands), q, k, next)

\* A variant of _keyword_rescue whose candidates are all the chunks, those of
\* `already` included.
keyword_rescue_any_chunk(chunk_list, q, fused, already, k) ==
    LET sorted == Values(SortedDesc([i \in 1..Len(chunk_list) |->
                                        [k |-> Get(fused, chunk_list[i].id, 0),
                                         v |-> chunk_list[i]]]))
    IN rescue_loop(sorted, q, k, << >>)

\* _keyword_rescue, lines 834-888.
keyword_rescue(chunk_list, q, fused, already, k) ==
    LET cands  == SelectSeq(chunk_list, LAMBDA c : c.id \notin already)
        sorted == Values(SortedDesc([i \in 1..Len(cands) |->
                                        [k |-> Get(fused, cands[i].id, 0), v |-> cands[i]]]))
    IN rescue_loop(sorted, q, k, << >>)

\* Lines 915-927: the loop appends, then tests len(results) >= top_k.
RECURSIVE append_rescued(_, _, _, _)
append_rescued(res, rescuedChunks, fused, k) ==
    IF rescuedChunks = << >> THEN res
    ELSE LET c    == Head(rescuedChunks)
             next == Append(res, Result(c, Get(fused, c.id, 0)))
         IN IF Len(next) >= k THEN next
            ELSE append_rescued(next, Tail(rescuedChunks), fused, k)

\* page_level_search, lines 715-758, with top_k = 3.
page_level_search(pages, pages_index, q, seed) ==
    IF pages = << >> \/ pages_index = None THEN << >>
    ELSE
    LET pcorpus == Val(pages_index)
        rows   == [i \in 1..Len(pcorpus) |-> [k |-> q.page_bm25[i], v |-> i]]
        ranked == SubSeq(Values(SortedDesc(rows)), 1, Min(Len(pcorpus), Min(Len(pages), 20)))
        IdxOf(r) == LET hits == {i \in 1..Len(pages) : PageText(pages[i]) = pcorpus[r]}
                    IN IF hits = {} THEN 0 ELSE CHOOSE i \in hits : \A j \in hits : j <= i
        found  == SelectSeq(ranked, LAMBDA r : IdxOf(r) # 0)
        bm25s  == [n \in 1..Len(found) |-> [id |-> IdxOf(found[n]), s |-> q.page_bm25[found[n]]]]
        coss   == [i \in 1..Len(pages) |-> [id |-> i, s |-> q.page_cos[i]]]
        bm25_norm   == IF bm25s = << >> THEN << >> ELSE normalize_scores(bm25s)
        cosine_norm == normalize_scores(coss)
        all_ids     == (DOMAIN bm25_norm) \cup (DOMAIN cosine_norm)
        fused  == [i \in all_ids |-> (Get(bm25_norm, i, 0) + Get(cosine_norm, i, 0)) \div 2]
        top    == SubSeq(sorted_ids(fused, seed), 1, Min(3, Cardinality(all_ids)))
    IN [n \in 1..Len(top) |->
          [page_num |-> pages[top[n]].page_num, doc_id |-> pages[top[n]].doc_id,
           title |-> pages[top[n]].title, score |-> fused[top[n]]]]

\* Lines 933-952: one chunk of each page whose number is not among the results.
RECURSIVE page_rescue_loop(_, _, _, _, _)
page_rescue_loop(page_results, chunk_list, fused, page_nums_already, res) ==
    IF page_results = << >> THEN res
    ELSE LET pr == Head(page_results)
             result_ids  == {res[i].chunk_id : i \in DOMAIN res}
             page_chunks == SelectSeq(chunk_list,
                               LAMBDA c : /\ c.page = pr.page_num
                                          /\ c.doc_id = pr.doc_id
                                          /\ c.id \notin result_ids)
             best == CHOOSE i \in DOMAIN page_chunks :
                        /\ \A j \in DOMAIN page_chunks :
                              Get(fused, page_chunks[j].id, 0) <= Get(fused, page_chunks[i].id, 0)
                        /\ \A j \in 1..(i - 1) :
                              Get(fused, page_chunks[j].id, 0) < Get(fused, page_chunks[i].id, 0)
             next == IF pr.page_num \in page_nums_already \/ page_chunks = << >> THEN res
                     ELSE Append(res, Result(page_chunks[best],
                                             Get(fused, page_chunks[best].id, 0)))
         IN page_rescue_loop(Tail(page_results), chunk_list, fused, page_nums_already, next)

\* The threshold of line 930, 0.6.
LOW_SCORE == Hundredths(60)

page_rescue(res, chunk_list, pages, pages_index, fused, q, seed) ==
    IF res # << >> /\ res[1].score < LOW_SCORE /\ pages # << >>
    THEN page_rescue_loop(page_level_search(pages, pages_index, q, seed), chunk_list, fused,
                          {res[i].page_number : i \in DOMAIN res}, res)
    ELSE res


(***************************************************************************)
(* hybrid_search as one step, on the live indices.                         *)
(***************************************************************************)
\* The three stages of lines 890-954 and the list returned.
hybrid_search_stages(chunk_list, index, pages, pages_index, q, k, seed) ==
    IF chunk_list = << >> \/ index = None
    THEN [primary |-> << >>, rescued |-> << >>, paged |-> << >>, results |-> << >>]
    ELSE LET fused  == Fused(chunk_list, Val(index), q)
             first  == primary_fill(sorted_ids(fused, seed), chunk_list, fused, k, << >>)
             resc   == keyword_rescue(chunk_list, q, fused,
                                      {first[i].chunk_id : i \in DOMAIN first}, 5)
             second == append_rescued(first, resc, fused, k)
             third  == page_rescue(second, chunk_list, pages, pages_index, fused, q, seed)
         IN [primary |-> first,
             rescued |-> SubSeq(second, Len(first) + 1, Len(second)),
             paged   |-> SubSeq(third, Len(second) + 1, Len(third)),
             results |-> third]

hybrid_search ==
    /\ spc = "start"
    /\ spc' = "done"
    /\ \E out \in {hybrid_search_stages(chunks, bm25_index, pages_store, pages_bm25,
                                        query, top_k, hashSeed)} :
          /\ primary' = out.primary
          /\ rescued' = out.rescued
          /\ paged'   = out.paged
          /\ results' = out.results
    /\ UNCHANGED <<ingestVars, readerVars, chunkVars, normVars, voterVars,
                   hashSeed, query, top_k>>

(***************************************************************************)
(* A reader: retrieve and the reads hybrid_search makes of the globals.    *)
(***************************************************************************)
NothingSeen == [query |-> "none", status |-> "none", chunks1 |-> None, bm25 |-> None,
                built |-> None, chunks2 |-> None, pages |-> None]

\* The query of a request: some text, or nothing but whitespace.
QueryKinds == {"text", "blank"}

\* retrieve, lines 1079-1083, and hybrid_search, lines 766-779.
reader_bm25 ==
    /\ started
    /\ rpc = "idle"
    /\ \E q \in QueryKinds :
       IF chunks = << >>
       THEN /\ seen' = [NothingSeen EXCEPT !.query = q, !.status = "503"]
            /\ rpc' = "done"
       ELSE IF q = "blank"
       THEN /\ seen' = [NothingSeen EXCEPT !.query = q, !.status = "400"]
            /\ rpc' = "done"
       ELSE IF bm25_index = None
       THEN /\ seen' = [NothingSeen EXCEPT !.query = q, !.status = "200",
                                           !.chunks1 = Some(chunks)]
            /\ rpc' = "done"
       ELSE /\ seen' = [NothingSeen EXCEPT !.query = q, !.status = "200",
                                           !.chunks1 = Some(chunks),
                                           !.bm25 = bm25_index, !.built = Some(built)]
            /\ rpc' = "cosine"
    /\ UNCHANGED <<ingestVars, searchVars, chunkVars, normVars, voterVars>>

\* hybrid_search, line 783 (and 822, 861): the global chunks is read again.
reader_cosine ==
    /\ rpc = "cosine"
    /\ seen' = [seen EXCEPT !.chunks2 = Some(chunks)]
    /\ rpc' = "page"
    /\ UNCHANGED <<ingestVars, searchVars, chunkVars, normVars, voterVars>>

\* hybrid_search, lines 930-931: the page index is read.
reader_page ==
    /\ rpc = "page"
    /\ seen' = [seen EXCEPT !.pages = Some(pages_store)]
    /\ rpc' = "done"
    /\ UNCHANGED <<ingestVars, searchVars, chunkVars, normVars, voterVars>>

\* The response is sent.
reader_return ==
    /\ rpc = "done"
    /\ seen' = NothingSeen
    /\ rpc' = "idle"
    /\ UNCHANGED <<ingestVars, searchVars, chunkVars, normVars, voterVars>>

(***************************************************************************)
(* The specifications.                                                     *)
(***************************************************************************)
NoQuery == [words |-> << >>, specific_terms |-> {}, times |-> {}, nums |-> {},
            asks_phone |-> FALSE, bm25 |-> << >>, cos |-> << >>,
            page_bm25 |-> << >>, page_cos |-> << >>]

\* The process as it starts: the module-level globals, any content of
\* DOCS_DIR, a cache directory left by an earlier run.
Init ==
    /\ docsDir \in SUBSET PdfPaths
    /\ cacheDir \in InitCaches
    /\ chunks = << >>
    /\ bm25_index = None
    /\ pages_store = << >>
    /\ pages_bm25 = None
    /\ ingesting = FALSE
    /\ started = FALSE
    /\ pc = [t \in Threads |-> IF t = 0 THEN "init" ELSE "idle"]
    /\ loc = [t \in Threads |-> NoLocals]
    /\ resp = [t \in Threads |-> NoResponse]
    /\ nreq = 0
    /\ nchanges = 0
    /\ built = << >>
    /\ rpc = "idle"
    /\ seen = NothingSeen
    /\ hashSeed = 0
    /\ query = NoQuery
    /\ top_k = 0
    /\ spc = "off"
    /\ results = << >>
    /\ primary = << >>
    /\ rescued = << >>
    /\ paged = << >>
    /\ page_words = 0
    /\ cpc = "off"
    /\ chunks_of_page = << >>
    /\ NormOff
    /\ VotersOff

Next ==
    \/ startup
    \/ \E t \in Workers : ingest_check(t)
    \/ \E t \in Workers : ingest_set(t)
    \/ \E t \in Threads : step_clean(t)
    \/ \E t \in Threads : step_scan(t)
    \/ \E t \in Threads : step_doc_cached(t)
    \/ \E t \in Threads : step_doc_fresh(t)
    \/ \E t \in Threads : step_doc_unreadable(t)
    \/ \E t \in Threads : step_doc_embed_fails(t)
    \/ \E t \in Threads : step_publish_chunks(t)
    \/ \E t \in Threads : step_build_bm25(t)
    \/ \E t \in Threads : step_page_embed(t)
    \/ \E t \in Threads : step_page_embed_fails(t)
    \/ \E t \in Threads : step_publish_pages(t)
    \/ \E t \in Threads : step_publish_pages_bm25(t)
    \/ \E t \in Threads : step_finally(t)
    \/ change_docs

Spec == Init /\ [][Next]_vars

\* The same process with a reader of the live indices.
NextRead ==
    \/ Next
    \/ reader_bm25
    \/ reader_cosine
    \/ reader_page
    \/ reader_return

SpecRead == Init /\ [][NextRead]_vars

\* The live indices a completed rebuild of the directory leaves.
RECURSIVE AllChunks(_)
AllChunks(paths) ==
    IF paths = << >> THEN << >> ELSE FreshChunks(Head(paths)) \o AllChunks(Tail(paths))

RECURSIVE AllPages(_)
AllPages(paths) ==
    IF paths = << >> THEN << >> ELSE ParsedPages(Head(paths)) \o AllPages(Tail(paths))

MaxScore == 1
Scores   == 0..MaxScore       \* the raw BM25 scores of a chunk
Cosines    == {0, 1}          \* the raw cosines of a chunk
PageScores == {0, 1}          \* the raw BM25 scores of a page
TopKs    == {1, 2, 7}
Seeds    == {0, 1}

\* A served process whose last rebuild loaded a directory of readable PDFs,
\* and one retrieve request with the scores the libraries give it: a BM25
\* score and a cosine for every chunk, a BM25 score for every page, and equal
\* page cosines.
InitSearch ==
    /\ docsDir \in {{1}, {2}, {1, 2}} \cup {{1, d} : d \in OnePagePdfs}
    /\ cacheDir = EmptyDir
    /\ chunks = AllChunks(SortedPaths(docsDir))
    /\ bm25_index = Some(build_bm25(chunks))
    /\ pages_store = EmbedPages(AllPages(SortedPaths(docsDir)))
    /\ pages_bm25 = Some(PageCorpus(pages_store))
    /\ ingesting = FALSE
    /\ started = TRUE
    /\ pc = [t \in Threads |-> IF t = 0 THEN "done" ELSE "idle"]
    /\ loc = [t \in Threads |-> NoLocals]
    /\ resp = [t \in Threads |-> NoResponse]
    /\ nreq = 0
    /\ nchanges = 0
    /\ built = AllPages(SortedPaths(docsDir))
    /\ rpc = "idle"
    /\ seen = NothingSeen
    /\ hashSeed \in Seeds
    /\ \E text \in QueryTexts :
       \E b \in [1..Len(chunks) -> Scores], c \in [1..Len(chunks) -> Cosines] :
       \E pb \in [1..Len(pages_store) -> PageScores], pcs \in {[i \in 1..Len(pages_store) |-> 0]} :
          query = [words |-> text.words, specific_terms |-> text.specific_terms,
                   times |-> text.times, nums |-> text.nums, asks_phone |-> text.asks_phone,
                   bm25 |-> b, cos |-> c, page_bm25 |-> pb, page_cos |-> pcs]
    /\ top_k \in TopKs
    /\ spc = "start"
    /\ results = << >>
    /\ primary = << >>
    /\ rescued = << >>
    /\ paged = << >>
    /\ page_words = 0
    /\ cpc = "off"
    /\ chunks_of_page = << >>
    /\ NormOff
    /\ VotersOff

NextSearch == hybrid_search

SpecSearch == InitSearch /\ [][NextSearch]_vars

(***************************************************************************)
(* Properties of retrieval (SpecSearch).                                   *)
(***************************************************************************)
\* C1: hybrid_search returns at most top_k results, the primary-fill, the
\* keyword-rescued and the page-rescued chunks counted together.
C1_AtMostTopK == spc = "done" => Len(results) <= top_k

\* C2: no chunk_id appears twice in the list hybrid_search returns, whatever
\* the index (the chunks of several documents included), the query and top_k.
C2_DistinctChunkIds ==
    spc = "done" =>
        \A i, j \in DOMAIN results : i # j => results[i].chunk_id # results[j].chunk_id

\* A search of an index of two documents whose primary result also passes the
\* acceptance test of keyword rescue, and to which both rescues added a chunk.
C2_PrimaryAlsoRescuable ==
    /\ spc = "done"
    /\ \E i, j \in DOMAIN chunks : chunks[i].doc_id # chunks[j].doc_id
    /\ \E i \in DOMAIN primary :
          rescue_accepts(id_to_chunk(chunks, primary[i].chunk_id), query)
    /\ rescued # << >>
    /\ paged # << >>

(***************************************************************************)
(* Properties of the rebuild (Spec) and of its readers (SpecRead).         *)
(***************************************************************************)
\* The positions of a thread inside ingest_all_docs.
InRebuild == {"clean", "scan", "doc", "publish_chunks", "build_bm25", "page_index",
              "publish_pages", "publish_pages_bm25"}

\* C3: whatever the interleaving of the POST /ingest requests, at most one
\* run of ingest_all_docs is in progress at any time.
C3_OneRebuildAtATime == Cardinality({t \in Threads : pc[t] \in InRebuild}) <= 1

\* C4: a reader that has read the chunk list and the page list has read the
\* page list of the rebuild that published that chunk list.
C4_SameRebuild ==
    (rpc = "done" /\ seen.pages # None) =>
        PageCorpus(Val(seen.pages)) = PageCorpus(Val(seen.built))

\* C5: in every state a request can observe the live BM25 index is the one
\* built over the live chunk list, and a retrieve that ran to its end used one
\* chunk list and the BM25 index built over it.
C5_Bm25MatchesChunks ==
    /\ started => \/ chunks = << >> /\ bm25_index = None
                  \/ bm25_index = Some(build_bm25(chunks))
    /\ (rpc = "done" /\ seen.chunks2 # None) =>
          /\ seen.chunks2 = seen.chunks1
          /\ seen.bm25 = Some(build_bm25(Val(seen.chunks1)))

\* One POST /ingest has been made since startup: one rebuild, that of thread t.
OnlyRebuild(t) == nreq = 1 /\ resp[t].req = 1

\* C6: when the embedder fails in a rebuild, the live chunk list, the live
\* BM25 index and the live page list are what they were when the rebuild began
\* (stated of a rebuild no other rebuild runs beside).
C6_EmbedderFailureLeavesLive ==
    \A t \in Workers :
        (OnlyRebuild(t) /\ pc[t] = "finally" /\ loc[t].error = "embedder") =>
            Live = loc[t].before

\* The readable files of a scan, in its order.
Readable(paths) == SelectSeq(paths, LAMBDA path : ~Malformed(path))

\* C7: a rebuild that scanned a malformed PDF skips it, goes on and publishes
\* the chunks of the other documents of the scan (stated of a rebuild no other
\* rebuild runs beside).
C7_MalformedSkipped ==
    \A t \in Workers :
        (OnlyRebuild(t) /\ pc[t] = "finally"
            /\ Readable(loc[t].pdf_files) # loc[t].pdf_files) =>
            /\ loc[t].error = "none"
            /\ chunks = AllChunks(Readable(loc[t].pdf_files))

\* C8: a POST /ingest handled while the flag is set answers 409, schedules no
\* rebuild, and leaves the flag, the live indices and the cache as they are.
C8_ConflictChangesNothing ==
    [][(nreq' # nreq /\ ingesting) =>
          /\ \E t \in Workers : resp'[t] = [req |-> nreq', code |-> "409"]
          /\ pc' = pc
          /\ loc' = loc
          /\ ingesting' = ingesting
          /\ chunks' = chunks
          /\ bm25_index' = bm25_index
          /\ pages_store' = pages_store
          /\ pages_bm25' = pages_bm25
          /\ cacheDir' = cacheDir]_vars

\* A request was answered 409 while another thread, which set the flag, is
\* inside its rebuild.
C8_ConflictAnswered ==
    /\ ingesting
    /\ \E t \in Workers : resp[t].code = "409" /\ resp[t].req = nreq
    /\ \E t \in Workers : pc[t] \in InRebuild

\* C9: no two chunks of the live chunk list have the same id.
C9_UniqueChunkIds ==
    \A i, j \in DOMAIN chunks : i # j => chunks[i].id # chunks[j].id

\* C10: when a rebuild has run without an exception, every live chunk has the
\* doc_id of a PDF of that rebuild's scan of the directory (stated of a
\* rebuild no other rebuild runs beside).
C10_LiveChunksAreScanned ==
    \A t \in Workers :
        (OnlyRebuild(t) /\ pc[t] = "finally" /\ loc[t].error = "none") =>
            \A i \in DOMAIN chunks :
                chunks[i].doc_id \in {file_hash(loc[t].pdf_files[n]) :
                                         n \in DOMAIN loc[t].pdf_files}

(***************************************************************************)
(* Properties of the disk cache.                                           *)
(***************************************************************************)
\* C11: when a rebuild has completed, every file of the cache directory has
\* a name that contains CACHE_VERSION.
C11_OnlyCurrentVersionFiles ==
    \A t \in Threads :
        (pc[t] = "finally" /\ loc[t].error = "none") =>
            \A f \in DOMAIN cacheDir : f.ver = CACHE_VERSION

\* The cache entry of a document as an earlier run of this version saved it.
Saved(path) == save_chunk_cache(EmptyDir, file_hash(path), FreshChunks(path))

\* A file that cannot be parsed.
Unparseable == [valid |-> FALSE, rows |-> << >>]

\* What the cache directory may hold when the process starts: the artefacts
\* of an older version, or an entry of the current version for document 1:
\* complete, with one file missing, with one file unparseable, or with a
\* matrix of another row count.
StartCaches ==
    InitCaches \cup
    { Saved(1),
      Unlink(Saved(1), {emb_cache_path(file_hash(1))}),
      Unlink(Saved(1), {cache_path(file_hash(1))}),
      WriteFile(Saved(1), cache_path(file_hash(1)), Unparseable),
      WriteFile(Saved(1), emb_cache_path(file_hash(1)), Unparseable),
      WriteFile(Saved(1), emb_cache_path(file_hash(1)), FileData(<< Embed("other") >>)) }

\* The start of the process, over those cache directories and over the
\* directories of documents that may hold a PDF without chunks.
InitCache ==
    /\ docsDir \in SUBSET (PdfPaths \cup ShortPdfs)
    /\ cacheDir \in StartCaches
    /\ chunks = << >>
    /\ bm25_index = None
    /\ pages_store = << >>
    /\ pages_bm25 = None
    /\ ingesting = FALSE
    /\ started = FALSE
    /\ pc = [t \in Threads |-> IF t = 0 THEN "init" ELSE "idle"]
    /\ loc = [t \in Threads |-> NoLocals]
    /\ resp = [t \in Threads |-> NoResponse]
    /\ nreq = 0
    /\ nchanges = 0
    /\ built = << >>
    /\ rpc = "idle"
    /\ seen = NothingSeen
    /\ hashSeed = 0
    /\ query = NoQuery
    /\ top_k = 0
    /\ spc = "off"
    /\ results = << >>
    /\ primary = << >>
    /\ rescued = << >>
    /\ paged = << >>
    /\ page_words = 0
    /\ cpc = "off"
    /\ chunks_of_page = << >>
    /\ NormOff
    /\ VotersOff

\* The rebuild of startup.
NextCache ==
    \/ startup
    \/ step_clean(0)
    \/ step_scan(0)
    \/ step_doc_cached(0)
    \/ step_doc_fresh(0)
    \/ step_doc_unreadable(0)
    \/ step_doc_embed_fails(0)
    \/ step_publish_chunks(0)
    \/ step_build_bm25(0)
    \/ step_build_bm25_fails(0)
    \/ step_page_embed(0)
    \/ step_page_embed_fails(0)
    \/ step_publish_pages(0)
    \/ step_publish_pages_bm25(0)
    \/ step_finally(0)

SpecCache == InitCache /\ [][NextCache]_vars

\* Both files of the entry of doc_hash exist, can be parsed, and have the
\* same number of rows.
Usable(dir, doc_hash) ==
    /\ cache_path(doc_hash) \in DOMAIN dir
    /\ emb_cache_path(doc_hash) \in DOMAIN dir
    /\ dir[cache_path(doc_hash)].valid
    /\ dir[emb_cache_path(doc_hash)].valid
    /\ Len(dir[cache_path(doc_hash)].rows) = Len(dir[emb_cache_path(doc_hash)].rows)

\* C12: load_chunk_cache returns an entry exactly when both of its files
\* exist, can be parsed and have the same row count; a turn of the rebuild's
\* loop then takes the chunks of the entry and leaves the cache as it is, and
\* in every other case computes the chunks of the document again and saves them.
C12_CacheHitOnlyWhenUsable ==
    [][\A t \in Threads :
          (pc[t] = "doc" /\ loc'[t].i = loc[t].i + 1) =>
             LET h     == file_hash(CurrentPdf(t))
                 fresh == FreshChunks(CurrentPdf(t))
                 json  == cacheDir[cache_path(h)].rows
                 npy   == cacheDir[emb_cache_path(h)].rows
             IN /\ (load_chunk_cache(cacheDir, h) # None) <=> Usable(cacheDir, h)
                /\ IF Usable(cacheDir, h)
                   THEN /\ loc'[t].all_chunks = loc[t].all_chunks \o
                              [i \in 1..Len(json) |-> [json[i] EXCEPT !.embedding = npy[i]]]
                        /\ cacheDir' = cacheDir
                   ELSE /\ loc'[t].all_chunks = loc[t].all_chunks \o fresh
                        /\ cacheDir'[cache_path(h)] = FileData(Serialisable(fresh))
                        /\ fresh # << >> =>
                              cacheDir'[emb_cache_path(h)] =
                                 FileData([i \in 1..Len(fresh) |-> fresh[i].embedding])]_vars

\* The rebuild found both files of the entry of document 1, the matrix with
\* another row count than the JSON, and has ingested the document again.
C12_MismatchReingested ==
    LET found == loc[0].cache_found
        h     == file_hash(1)
    IN /\ pc[0] = "publish_chunks"
       /\ cache_path(h) \in DOMAIN found /\ emb_cache_path(h) \in DOMAIN found
       /\ found[cache_path(h)].valid /\ found[emb_cache_path(h)].valid
       /\ Len(found[cache_path(h)].rows) # Len(found[emb_cache_path(h)].rows)
       /\ loc[0].all_chunks = FreshChunks(1)
       /\ Usable(cacheDir, h)

\* The rebuild of thread t is the second of the process, after that of
\* startup, it has run to its end, and DOCS_DIR never changed.
SecondRebuildDone(t) ==
    /\ OnlyRebuild(t)
    /\ nchanges = 0
    /\ pc[t] = "finally"
    /\ loc[t].error = "none"

C14_BlankIs400 ==
    rpc # "idle" =>
        /\ seen.query = "blank" => seen.status = "400"
        /\ seen.query = "text" =>
              \/ seen.status = "503"
              \/ seen.chunks1 # None /\ Val(seen.chunks1) # << >>
        /\ seen.status \in {"400", "503"} => seen.chunks1 = None /\ seen.bm25 = None

\* C15: after a startup that loaded no chunk, a retrieve is answered 503 as
\* long as the first rebuild after startup has not completed.
C15_UnavailableUntilRebuilt ==
    \A t \in Workers :
        (/\ OnlyRebuild(t)
         /\ pc[t] \in InRebuild \ {"clean"}
         /\ loc[t].before.chunks = << >>
         /\ rpc # "idle") => seen.status = "503"

(***************************************************************************)
(* The page index beside the chunk index (SpecCache).                      *)
(***************************************************************************)
\* C16: once startup has completed its rebuild and no other rebuild has
\* begun, the page list is empty exactly when the chunk list is.
C16_PagesIffChunks ==
    (started /\ nreq = 0) => ((pages_store # << >>) <=> (chunks # << >>))

(***************************************************************************)
(* chunk_pages on one page (SpecChunk).                                    *)
(***************************************************************************)
MaxWords == 600       \* words of the page

\* A document of one page of n words.
OnePage(n) == << [page_num |-> 1, words |-> n, title |-> "Section 5", doc_id |-> "h1"] >>

InitChunk ==
    /\ docsDir = {}
    /\ cacheDir = EmptyDir
    /\ chunks = << >>
    /\ bm25_index = None
    /\ pages_store = << >>
    /\ pages_bm25 = None
    /\ ingesting = FALSE
    /\ started = FALSE
    /\ pc = [t \in Threads |-> IF t = 0 THEN "init" ELSE "idle"]
    /\ loc = [t \in Threads |-> NoLocals]
    /\ resp = [t \in Threads |-> NoResponse]
    /\ nreq = 0
    /\ nchanges = 0
    /\ built = << >>
    /\ rpc = "idle"
    /\ seen = NothingSeen
    /\ hashSeed = 0
    /\ query = NoQuery
    /\ top_k = 0
    /\ spc = "off"
    /\ results = << >>
    /\ primary = << >>
    /\ rescued = << >>
    /\ paged = << >>
    /\ page_words \in 0..MaxWords
    /\ cpc = "start"
    /\ chunks_of_page = << >>
    /\ NormOff
    /\ VotersOff

\* chunk_pages(pages) for that document.
chunk_one_page ==
    /\ cpc = "start"
    /\ chunks_of_page' = chunk_pages(OnePage(page_words))
    /\ cpc' = "done"
    /\ UNCHANGED <<ingestVars, readerVars, searchVars, normVars, voterVars, page_words>>

NextChunk == chunk_one_page

SpecChunk == InitChunk /\ [][NextChunk]_vars

\* C17: a page of fewer than 40 words gives no chunk; otherwise its chunks
\* start at the words 0, 220, 440, ..., each holds the 280 words from its
\* start (or what is left of the page) and at least 15, and the chunks end
\* at the first window that would hold fewer than 15 words.
C17_ChunkWindows ==
    cpc = "done" =>
        LET n == page_words
            k == Len(chunks_of_page)
            start(i) == chunks_of_page[i].raw_content[3]
            len(i)   == chunks_of_page[i].raw_content[4]
        IN IF n < 40 THEN k = 0
           ELSE /\ \A i \in 1..k :
                      /\ start(i) = 220 * (i - 1)
                      /\ len(i) = Min(280, n - start(i))
                      /\ len(i) >= 15 /\ len(i) <= 280
                /\ n - 220 * k < 15

\* A page of several chunks whose last window, of 1 to 14 words, was dropped.
C17_TailDropped ==
    /\ cpc = "done"
    /\ Len(chunks_of_page) >= 2
    /\ page_words - 220 * Len(chunks_of_page) \in 1..14

(***************************************************************************)
(* Further properties of retrieval (SpecSearch).                           *)
(***************************************************************************)
\* C18: for a fixed live index, a fixed query and a fixed top_k, any two
\* executions of retrieve return the same list (the same chunk ids in the
\* same order with the same scores), chunks of equal fused scores included:
\* the list returned is the list any process's iteration order of the set of
\* ids gives.
C18_SameListWhateverOrder ==
    spc = "done" =>
        \A seed \in Seeds :
            results = hybrid_search_stages(chunks, bm25_index, pages_store, pages_bm25,
                                           query, top_k, seed).results

\* C19: for every top_k >= 1 the primary fill takes the chunks in
\* non-increasing order of fused score and contributes at most
\* max(0, top_k - 5) results, which leaves 5 slots (all the slots when
\* top_k <= 5) to keyword rescue.
C19_PrimaryLeavesFiveSlots ==
    (spc = "done" /\ top_k >= 1) =>
        /\ \A i, j \in DOMAIN primary : i < j => primary[i].score >= primary[j].score
        /\ Len(primary) <= Max(0, top_k - 5)

\* C20: the list retrieve returns is the primary-fill results, then the
\* keyword-rescued results, then the page-rescued results, none reordered or
\* removed by a later stage, and the score of every result is the fused score
\* of the chunk it shows: the mean of that chunk's normalised BM25 score and
\* normalised cosine, plus that chunk's adjustment.
C20_StagesInOrderWithOwnScores ==
    spc = "done" =>
        LET bs == {query.bm25[n] : n \in DOMAIN chunks}
            cs == {query.cos[n] : n \in DOMAIN chunks}
            lo(S) == CHOOSE x \in S : \A y \in S : x <= y
            hi(S) == CHOOSE x \in S : \A y \in S : x >= y
            norm(x, S) == IF hi(S) = lo(S) THEN UNIT
                          ELSE ((x - lo(S)) * UNIT) \div (hi(S) - lo(S))
            own(n) == (norm(query.bm25[n], bs) + norm(query.cos[n], cs)) \div 2
                      + score_adjustment(chunks[n], query)
        IN /\ results = primary \o rescued \o paged
           /\ \A i \in DOMAIN results :
                 \E n \in DOMAIN chunks :
                    /\ chunks[n].id = results[i].chunk_id
                    /\ chunks[n].raw_content = results[i].chunk_content
                    /\ chunks[n].doc_id = results[i].document_id
                    /\ results[i].score = own(n)

\* C21: keyword rescue walks the chunks the primary fill did not choose in
\* descending order of fused score: at most 5 chunks are rescued, and whenever
\* a chunk that passes the acceptance test is neither a primary result nor
\* rescued, the rescue stopped for want of a slot and every rescued chunk
\* passes the test with a fused score at least that chunk's.
C21_RescueBestFirst ==
    spc = "done" =>
        LET fused == Fused(chunks, Val(bm25_index), query)
            Shows(r, n) == /\ r.chunk_id = chunks[n].id
                           /\ r.chunk_content = chunks[n].raw_content
            left_out(n) == /\ rescue_accepts(chunks[n], query)
                           /\ \A i \in DOMAIN primary : ~Shows(primary[i], n)
                           /\ \A i \in DOMAIN rescued : ~Shows(rescued[i], n)
        IN /\ Len(rescued) <= 5
           /\ \A n \in DOMAIN chunks :
                 left_out(n) =>
                    /\ Len(rescued) = 5 \/ Len(primary) + Len(rescued) >= top_k
                    /\ \A i \in DOMAIN rescued :
                          /\ rescued[i].score >= fused[chunks[n].id]
                          /\ \E m \in DOMAIN chunks :
                                Shows(rescued[i], m) /\ rescue_accepts(chunks[m], query)

\* C22: keyword rescue accepts a chunk exactly when a high-value pattern of
\* the query occurs in its raw and contextual content, or else when the
\* number of distinct distinctive query tokens it contains is at least
\* max(2, floor(|tokens| / 2)), a token repeated in the query counting once:
\* every rescued chunk passes that test.
C22_RescuedByDistinctTokens ==
    spc = "done" =>
        LET tokens == {query.words[i] : i \in DOMAIN query.words}
            stated(c) ==
                \/ \E term \in query.specific_terms : term \in Combined(c)
                \/ Cardinality({w \in tokens : w \in Combined(c)})
                      >= Max(2, Cardinality(tokens) \div 2)
        IN \A i \in DOMAIN rescued :
              \A n \in DOMAIN chunks :
                 (chunks[n].id = rescued[i].chunk_id
                    /\ chunks[n].raw_content = rescued[i].chunk_content)
                 => stated(chunks[n])

\* C23: page-level rescue runs only when the score of the first result is
\* below 0.6 and there is a page index; then, for each of the top 3 pages (a
\* page being its document and its number) with no chunk among the results
\* and a chunk outside them, exactly one chunk of the page is injected, that
\* of the highest fused score, and none is injected for a page represented.
C23_OneChunkPerMissingPage ==
    spc = "done" =>
        LET fused  == Fused(chunks, Val(bm25_index), query)
            before == primary \o rescued
            ran    == before # << >> /\ before[1].score < LOW_SCORE /\ pages_store # << >>
            top3   == page_level_search(pages_store, pages_bm25, query, hashSeed)
            OnPage(r, pr) == r.page_number = pr.page_num /\ r.document_id = pr.doc_id
            outside(pr) == {n \in DOMAIN chunks :
                               /\ chunks[n].page = pr.page_num
                               /\ chunks[n].doc_id = pr.doc_id
                               /\ \A i \in DOMAIN before :
                                     before[i].chunk_content # chunks[n].raw_content}
            injected(pr) == {i \in DOMAIN paged : OnPage(paged[i], pr)}
        IN /\ ~ran => paged = << >>
           /\ ran => \A k \in DOMAIN top3 :
                 IF (\A i \in DOMAIN before : ~OnPage(before[i], top3[k]))
                       /\ outside(top3[k]) # {}
                 THEN /\ Cardinality(injected(top3[k])) = 1
                      /\ \A i \in injected(top3[k]) : \A n \in outside(top3[k]) :
                            paged[i].score >= fused[chunks[n].id]
                 ELSE (\E i \in DOMAIN before : OnPage(before[i], top3[k]))
                         => injected(top3[k]) = {}

\* C24: the adjustment of a chunk includes the broad time boost of 0.05 only
\* when the chunk contains a time expression and the query contains one too;
\* for a query without a time expression the adjustment of a returned chunk
\* is the same whether the chunk contains a time expression or not.
C24_BroadBoostNeedsQueryTime ==
    spc = "done" =>
        \A i \in DOMAIN results : \A n \in DOMAIN chunks :
           (chunks[n].id = results[i].chunk_id
              /\ chunks[n].raw_content = results[i].chunk_content)
           => LET c == chunks[n]
                  broad == IF RawTimes(c.raw_content) # {} /\ query.times # {}
                           THEN Hundredths(5) ELSE 0
              IN score_adjustment(c, query) =
                      Hundredths(15) * Cardinality({t \in query.times :
                                                       t \in RawTimes(c.raw_content)})
                    + Hundredths(5) * Cardinality({m \in query.nums :
                                                      m \in RawNums(c.raw_content)})
                    + broad
                    + (IF query.asks_phone /\ HasPhone(c.raw_content)
                       THEN Hundredths(30) ELSE 0)
                    - (IF LowPrioritySection(c.section_title) THEN Hundredths(50) ELSE 0)
                    - (IF LowPriorityContent(c.raw_content) THEN Hundredths(40) ELSE 0)

(***************************************************************************)
(* normalize_scores on its own (SpecNorm).                                 *)
(***************************************************************************)
\* No rebuild, no reader, no search.
Quiet ==
    /\ docsDir = {}
    /\ cacheDir = EmptyDir
    /\ chunks = << >>
    /\ bm25_index = None
    /\ pages_store = << >>
    /\ pages_bm25 = None
    /\ ingesting = FALSE
    /\ started = FALSE
    /\ pc = [t \in Threads |-> IF t = 0 THEN "init" ELSE "idle"]
    /\ loc = [t \in Threads |-> NoLocals]
    /\ resp = [t \in Threads |-> NoResponse]
    /\ nreq = 0
    /\ nchanges = 0
    /\ built = << >>
    /\ rpc = "idle"
    /\ seen = NothingSeen
    /\ hashSeed = 0
    /\ query = NoQuery
    /\ top_k = 0
    /\ spc = "off"
    /\ results = << >>
    /\ primary = << >>
    /\ rescued = << >>
    /\ paged = << >>

ChunkOff == page_words = 0 /\ cpc = "off" /\ chunks_of_page = << >>

MaxListLen  == 3      \* entries of the list given to normalize_scores
MaxRawScore == 2      \* the raw scores are 0..MaxRawScore
NormIds     == {0, 1, 2}

\* The lists of (id, score): hybrid_search builds them from the chunks, so
\* an id occurs as often as there are documents with a chunk of that id.
ScoredLists ==
    UNION {[1..l -> [id : NormIds, s : 0..MaxRawScore]] : l \in 0..MaxListLen}

InitNorm ==
    /\ Quiet
    /\ ChunkOff
    /\ VotersOff
    /\ score_list \in ScoredLists
    /\ npc = "start"
    /\ normalized = << >>

call_normalize_scores ==
    /\ npc = "start"
    /\ normalized' = normalize_scores(score_list)
    /\ npc' = "done"
    /\ UNCHANGED <<ingestVars, readerVars, searchVars, chunkVars, voterVars, score_list>>

NextNorm == call_normalize_scores

SpecNorm == InitNorm /\ [][NextNorm]_vars

\* C25: normalize_scores maps the empty list to the empty map, every entry
\* to 1.0 when all the scores are equal, and otherwise each score s to
\* (s - min) / (max - min): every value is in [0, 1], the minimum maps to 0,
\* the maximum to 1, and the order of the scores is kept.
C25_NormalizedRange ==
    npc = "done" =>
        LET ss == {score_list[i].s : i \in DOMAIN score_list}
            mn == CHOOSE x \in ss : \A y \in ss : x <= y
            mx == CHOOSE x \in ss : \A y \in ss : x >= y
            out(i) == normalized[score_list[i].id]
        IN IF score_list = << >> THEN normalized = << >>
           ELSE /\ DOMAIN normalized = {score_list[i].id : i \in DOMAIN score_list}
                /\ \A i \in DOMAIN score_list :
                      /\ out(i) >= 0 /\ out(i) <= UNIT
                      /\ mx = mn => out(i) = UNIT
                      /\ mx # mn =>
                            /\ out(i) = ((score_list[i].s - mn) * UNIT) \div (mx - mn)
                            /\ score_list[i].s = mn => out(i) = 0
                            /\ score_list[i].s = mx => out(i) = UNIT
                      /\ \A j \in DOMAIN score_list :
                            score_list[i].s <= score_list[j].s => out(i) <= out(j)

(***************************************************************************)
(* Progress of the rebuilds (SpecLive): a pool thread that runs _run goes  *)
(* on running it, and every step of ingest_all_docs returns or raises.     *)
(***************************************************************************)
\* The steps of worker t from the assignment of the flag to _run's finally.
RunStep(t) ==
    \/ ingest_set(t)
    \/ step_clean(t)
    \/ step_scan(t)
    \/ step_doc_cached(t)
    \/ step_doc_fresh(t)
    \/ step_doc_unreadable(t)
    \/ step_doc_embed_fails(t)
    \/ step_publish_chunks(t)
    \/ step_build_bm25(t)
    \/ step_page_embed(t)
    \/ step_page_embed_fails(t)
    \/ step_publish_pages(t)
    \/ step_publish_pages_bm25(t)
    \/ step_finally(t)

\* A process started on an empty cache and a readable docs directory.
InitLive == Init /\ docsDir \in {{}, {1}} /\ cacheDir = EmptyDir

SpecLive == InitLive /\ [][Next]_vars /\ \A t \in Workers : WF_vars(RunStep(t))

\* C26: every accepted rebuild trigger eventually clears the flag, whether
\* its rebuild finishes or aborts with an exception: the worker of an
\* accepted trigger reaches the end of _run, and a flag that is set does not
\* stay set for ever.
C26_FlagEventuallyCleared ==
    /\ \A t \in Workers : (pc[t] \in {"set"} \cup InRebuild \cup {"finally"}) ~> (pc[t] = "idle")
    /\ ingesting ~> ~ingesting

\* The second trigger was accepted after the rebuild of the first had ended,
\* and its own rebuild aborted with an exception, the flag still set.
C26_SecondTriggerAborts ==
    \E t, u \in Workers :
        /\ resp[t] = [req |-> 1, code |-> "200"] /\ pc[t] = "idle"
        /\ resp[u] = [req |-> 2, code |-> "200"] /\ pc[u] = "finally"
        /\ loc[u].error # "none"
        /\ ingesting

\* C27: for a page of at least 40 words every word position of the page is
\* inside at least one chunk: the words of a last window dropped for having
\* fewer than 15 words are all in the 60 words the chunk before it shares
\* with that window.
C27_EveryWordInAChunk ==
    (cpc = "done" /\ page_words >= 40) =>
        LET k == Len(chunks_of_page)
            start(i) == chunks_of_page[i].raw_content[3]
            len(i)   == chunks_of_page[i].raw_content[4]
            step     == CHUNK_SIZE - OVERLAP
        IN /\ \A w \in 0..(page_words - 1) :
                 \E i \in 1..k : start(i) <= w /\ w < start(i) + len(i)
           /\ \A w \in (step * k)..(page_words - 1) :
                 /\ k >= 1
                 /\ start(k) + step <= w
                 /\ w < start(k) + len(k)

\* A page of one chunk whose second window, of 1 to 14 words, was dropped.
C27_DroppedTailAfterOneChunk ==
    /\ cpc = "done"
    /\ Len(chunks_of_page) = 1
    /\ page_words - (CHUNK_SIZE - OVERLAP) \in 1..(MIN_SLICE_WORDS - 1)

\* C28: a rebuild, its sweep of the stale cache included, leaves the files of
\* the voter subsystem in the cache directory, voter-scores.json and
\* voters.csv, as they were: no step of a rebuild removes or rewrites them.
C28_RebuildKeepsVoterFiles ==
    [][\A f \in {VOTER_CACHE_PATH, VOTER_CSV_PATH} :
          f \in DOMAIN cacheDir => (f \in DOMAIN cacheDir' /\ cacheDir'[f] = cacheDir[f])]_vars

(***************************************************************************)
(* The voter subsystem (SpecVoters).  upload_voters and rescore_voters are *)
(* coroutines of the event loop: one runs until it awaits or returns.  The *)
(* tasks they add, _run_scoring and _run, are plain functions, run in pool *)
(* threads after the response.  A set of voter rows is a number, 0 for the *)
(* empty list.                                                             *)
(***************************************************************************)
\* The uploaded files: a name without .csv, a text without header row, a
\* header without the required columns, a header alone, two sets of rows.
CsvFiles == {"notcsv", "noheader", "missingcols", "norows", "rows1", "rows2"}

\* parse_voter_csv raises ValueError (lines 1178-1185) ...
parse_raises(file) == file \in {"noheader", "missingcols"}

\* ... or returns the rows.
parse_voter_csv(file) ==
    CASE file = "rows1" -> 1
      [] file = "rows2" -> 2
      [] OTHER -> 0

\* The variables of the rebuild that the voter subsystem leaves alone.
rebuildVars == <<docsDir, chunks, bm25_index, pages_store, pages_bm25,
                 ingesting, started, pc, loc, resp, nreq, nchanges, built>>

\* upload_voters, lines 1546-1552: the check of the flag, the check of the
\* file name, and the await of file.read().
upload_check(u) ==
    /\ upload[u].pc = "idle"
    /\ \E file \in CsvFiles :
          upload' = [upload EXCEPT ![u] =
                        IF voter_scoring THEN [pc |-> "done", file |-> file, code |-> "409"]
                        ELSE IF file = "notcsv"
                             THEN [pc |-> "done", file |-> file, code |-> "400"]
                             ELSE [pc |-> "read", file |-> file, code |-> "none"]]
    /\ UNCHANGED <<voter_records, scored_voters, voter_scoring, rescore, task>>
    /\ UNCHANGED <<rebuildVars, cacheDir, readerVars, searchVars, chunkVars, normVars>>

\* upload_voters, lines 1552-1583, once the file is read.
upload_resume(u) ==
    /\ upload[u].pc = "read"
    /\ IF parse_raises(upload[u].file)
       THEN /\ upload' = [upload EXCEPT ![u].pc = "done", ![u].code = "400"]
            /\ UNCHANGED <<voter_records, voter_scoring, task, cacheDir>>
       ELSE /\ voter_records' = parse_voter_csv(upload[u].file)
            /\ IF parse_voter_csv(upload[u].file) = 0
               THEN /\ upload' = [upload EXCEPT ![u].pc = "done", ![u].code = "400"]
                    /\ UNCHANGED <<voter_scoring, task, cacheDir>>
               ELSE /\ cacheDir' = WriteFile(cacheDir, VOTER_CSV_PATH,
                                             FileData(<< upload[u].file >>))
                    /\ voter_scoring' = TRUE
                    /\ task' = [task EXCEPT ![u].status = "queued"]
                    /\ upload' = [upload EXCEPT ![u].pc = "done", ![u].code = "200"]
    /\ UNCHANGED <<scored_voters, rescore>>
    /\ UNCHANGED <<rebuildVars, readerVars, searchVars, chunkVars, normVars>>

\* rescore_voters, lines 1676-1692: no await between the check and the set.
rescore_voters(r) ==
    /\ rescore[r] = "none"
    /\ IF voter_records = 0
       THEN /\ rescore' = [rescore EXCEPT ![r] = "404"]
            /\ UNCHANGED <<voter_scoring, task>>
       ELSE IF voter_scoring
       THEN /\ rescore' = [rescore EXCEPT ![r] = "409"]
            /\ UNCHANGED <<voter_scoring, task>>
       ELSE /\ voter_scoring' = TRUE
            /\ task' = [task EXCEPT ![r].status = "queued"]
            /\ rescore' = [rescore EXCEPT ![r] = "200"]
    /\ UNCHANGED <<voter_records, scored_voters, upload>>
    /\ UNCHANGED <<rebuildVars, cacheDir, readerVars, searchVars, chunkVars, normVars>>

\* A pool thread enters score_all_voters (line 1405) and reads voter_records.
score_begin(k) ==
    /\ task[k].status = "queued"
    /\ task' = [task EXCEPT ![k] = [status |-> "scoring", input |-> voter_records]]
    /\ UNCHANGED <<voter_records, scored_voters, voter_scoring, upload, rescore>>
    /\ UNCHANGED <<rebuildVars, cacheDir, readerVars, searchVars, chunkVars, normVars>>

\* score_all_voters returns (at once if there were no records, line 1409)
\* and the finally of the task clears the flag.
score_end(k) ==
    /\ task[k].status = "scoring"
    /\ task' = [task EXCEPT ![k].status = "done"]
    /\ voter_scoring' = FALSE
    /\ IF task[k].input = 0
       THEN UNCHANGED <<scored_voters, cacheDir>>
       ELSE /\ scored_voters' = task[k].input
            /\ cacheDir' = WriteFile(cacheDir, VOTER_CACHE_PATH,
                                     FileData(<< task[k].input >>))
    /\ UNCHANGED <<voter_records, upload, rescore>>
    /\ UNCHANGED <<rebuildVars, readerVars, searchVars, chunkVars, normVars>>

InitVoters == Quiet /\ ChunkOff /\ NormOff /\ VotersOff

NextVoters ==
    \/ \E u \in Uploads : upload_check(u)
    \/ \E u \in Uploads : upload_resume(u)
    \/ \E r \in Rescores : rescore_voters(r)
    \/ \E k \in Tasks : score_begin(k)
    \/ \E k \in Tasks : score_end(k)

SpecVoters == InitVoters /\ [][NextVoters]_vars

\* C29: whatever the interleaving of the upload-voters and rescore-voters
\* requests, upload-voters being suspended at the read of its file between
\* the check and the set of the flag, at most one run of score_all_voters is
\* in progress.
C29_OneScoringRun ==
    Cardinality({k \in Tasks : task[k].status = "scoring"}) <= 1

\* C30: an upload-voters request answered with an error (scoring in
\* progress, no .csv name, no header or required column, no data row) leaves
\* the voter records in memory, the scored candidates, the stored voters.csv
\* and the flag as they were.
C30_RejectedUploadChangesNothing ==
    [][\A u \in Uploads :
          (upload[u].code = "none" /\ upload'[u].code \in {"400", "409"})
          => /\ voter_records' = voter_records
             /\ scored_voters' = scored_voters
             /\ voter_scoring' = voter_scoring
             /\ (VOTER_CSV_PATH \in DOMAIN cacheDir) = (VOTER_CSV_PATH \in DOMAIN cacheDir')
             /\ VOTER_CSV_PATH \in DOMAIN cacheDir
                   => cacheDir'[VOTER_CSV_PATH] = cacheDir[VOTER_CSV_PATH]]_vars

=============================================================================
